---- MODULE Spec2Model ----
(***************************************************************************)
(* Token lifecycle and access-control state machine of TrainerFastAPI.     *)
(*                                                                         *)
(* The repository carries two generations of the same endpoints that write *)
(* the same `tokens` table:                                                *)
(*   - app/api/v1/endpoints/user/auth.py + app/services/auth/*.py          *)
(*     (register_user, login_user, logout_user, refresh);                  *)
(*   - app/fast_api/v1/endpoints/user.py (class AuthAPI) + AuthDAO in      *)
(*     app/db/dao/user.py (names prefixed AuthAPI_ / AuthDAO_ here).       *)
(* The Authorization Gate is get_current_user of app/core/security/auth.py.*)
(* The verification tokens (e-mail, change of e-mail, password reset) are  *)
(* redeemed by app/api/v1/endpoints/user/background.py, the contacts of an *)
(* account are deleted by app/api/v1/endpoints/user/me.py.                 *)
(*                                                                         *)
(* Time is counted in whole minutes.  A JWT is modelled by what jose's     *)
(* HS256 encoding makes of it: a value determined by its claims (sub,      *)
(* scopes, exp) and by the signing key, so two tokens minted from the same *)
(* claims under the same key are the same string.                          *)
(***************************************************************************)
EXTENDS Integers, FiniteSets, Sequences, TLC

\* ---------------------------------------------------------------- bounds
MaxTicks == 1
MaxIssue == 3
MaxProcs == 2
MaxWrong == 10
MaxFailed == 11
\* mails are asked for while the verification tables hold fewer rows than this
MaxVerifications == 2

\* ------------------------------------------------------ program constants
ACCESS_MINUTES == 15
REFRESH_MINUTES == 10080
DAO_REFRESH_MINUTES == 43200
\* the life of a verification token in minutes: timedelta(days=30)
VERIFICATION_MINUTES == 43200
\* handle_failed_login: failures that lock an account, and for how long
FAILED_ATTEMPTS_LIMIT == 10
LOCKOUT_MINUTES == 10

ACCESS == "ACCESS"
REFRESH == "REFRESH"

TAPI_TOKEN_ACCESS_SECRET_KEY == "access-secret"
TAPI_TOKEN_REFRESH_SECRET_KEY == "refresh-secret"
\* a key the server does not hold (forged or garbled token)
ForeignKey == "foreign-key"

list_adm_email == {"dblmokdima@gmail.com"}
list_dev_email == {"dblmokdima@gmail.com"}
Emails == {"dblmokdima@gmail.com", "a@x.com"}
\* one account per e-mail address at most
MaxUsers == Cardinality(Emails)
\* scope sets a client asks for at login, and scope sets endpoints require
ScopeRequests == {{}, {"ADMIN"}}
RequiredScopes == {{}, {"USER"}, {"ADMIN", "SYSADMIN"}}
\* the roles an administrator grants and withdraws
RoleEnum == {"USER", "ADMIN"}

None == "None"
Passwords == {"secret1a", "wrong-pw"}
\* an absent "sub" claim, and an absent (null) timestamp or "exp" claim
NoSub == 0
Null == -1
UserIds == 1..MaxUsers
TickSteps == {1, ACCESS_MINUTES + 1}
BanDurations == {ACCESS_MINUTES}

VARIABLES
    users,      \* table users: id -> row (exists = FALSE: no such row)
    tokens,     \* table tokens: set of rows, column token is unique
    now,        \* the UTC clock, in minutes
    ticks,      \* number of clock steps taken (bounds the run)
    issues,     \* number of successful token responses (bounds the run)
    session,    \* per account: the pair returned by its latest login/register
    last,       \* the last request that succeeded, and its response
    tx,         \* the login requests in flight together (concurrent runs only)
    attempts,   \* what has been observed of the login attempts (LoginSpec only)
    verifications   \* tables email_verification_tokens,
                    \* change_email_verification_tokens, reset_password_tokens
vars == <<users, tokens, now, ticks, issues, session, last, tx, attempts, verifications>>

NoToken == [sub |-> NoSub, scopes |-> {}, exp |-> Null, key |-> None]
NoUserRow == [exists |-> FALSE, email |-> None, password |-> <<>>, is_banned |-> FALSE,
              ban_until |-> Null, failed_attempts |-> 0, roles |-> {},
              phone_number |-> None, is_email_confirmed |-> FALSE]
NoLast == [op |-> "init", user |-> 0, res |-> None, access |-> NoToken,
           refresh |-> NoToken, presented |-> NoToken, scopes |-> {}]
NoSession == [access |-> NoToken, refresh |-> NoToken]

\* no login attempt observed yet.  Of the latest attempt: its account,
\* whether its password was right and what it was answered; wrong is the
\* number of wrong-password logins of that account in a row, with no other
\* login between them, and failed_at the time of the latest of them
NoAttempts == [wrong |-> 0, failed_at |-> Null,
               user |-> 0, correct |-> FALSE, verdict |-> None]

\* the requests that can be in flight together, and a request not in flight
Procs == 1..MaxProcs
NoTx == [pc |-> "idle", user |-> 0, scopes |-> {}, seen |-> {}, locked |-> {},
         added |-> {}, access |-> NoToken]

\* ------------------------------------------------------------ token issuer

\* jwt.encode(claims = {sub, scopes, exp}, key)
jwt_encode(sub, scopes, exp, key) ==
    [sub |-> sub, scopes |-> scopes, exp |-> exp, key |-> key]

\* jwt.decode(token, key): signature first, then the exp claim
\* (jose raises ExpiredSignatureError when exp < now)
jwt_decode(token, key) ==
    IF token.key # key THEN "JWTError"
    ELSE IF token.exp # Null /\ token.exp < now THEN "ExpiredSignatureError"
    ELSE "ok"

\* token_service.create_token: returns (jwt, expire)
create_token(sub, scopes, type_token) ==
    LET type_secret_key == IF type_token = ACCESS
                           THEN TAPI_TOKEN_ACCESS_SECRET_KEY
                           ELSE TAPI_TOKEN_REFRESH_SECRET_KEY
        expires_delta == IF type_token = ACCESS THEN ACCESS_MINUTES
                         ELSE REFRESH_MINUTES
        expire == now + expires_delta
    IN [token |-> jwt_encode(sub, scopes, expire, type_secret_key),
        expire |-> expire]

\* token_service.creating_recording_token_to_user: create_token is called
\* without type_token, so its default (ACCESS) applies to both kinds.
creating_recording_token_to_user(user_id, token_scopes, type_token) ==
    LET t == create_token(user_id, token_scopes, ACCESS)
    IN [user_id |-> user_id, token |-> t.token, expires_at |-> t.expire,
        token_type |-> type_token, ban |-> FALSE]

\* ------------------------------------------------------------- token store

RowsOf(T, user_id) == {r \in T : r.user_id = user_id}
TokenStrings(T) == {r.token : r \in T}

\* an issuer that skips the UPDATE banning the account's rows
creating_recording_all_token_to_user_no_ban(T, user_id, token_scopes) ==
    LET access_token == creating_recording_token_to_user(user_id, token_scopes, ACCESS)
        refresh_token == creating_recording_token_to_user(user_id, token_scopes, REFRESH)
        flushed == refresh_token.token \notin TokenStrings(T)
    IN [flushed |-> flushed,
        tokens |-> IF flushed THEN T \cup {refresh_token} ELSE T,
        access |-> access_token.token,
        refresh |-> refresh_token.token]

\* token_service.creating_recording_all_token_to_user.
\* UPDATE tokens SET ban = true WHERE user_id = :id; mint both; append only
\* the refresh row to user.tokens; flush.  A flush that violates the unique
\* constraint on tokens.token is logged and swallowed (flushed = FALSE): the
\* session is then unusable and the request's commit fails.
creating_recording_all_token_to_user(T, user_id, token_scopes) ==
    LET banned == {[r EXCEPT !.ban = TRUE] : r \in RowsOf(T, user_id)}
                     \cup (T \ RowsOf(T, user_id))
        access_token == creating_recording_token_to_user(user_id, token_scopes, ACCESS)
        refresh_token == creating_recording_token_to_user(user_id, token_scopes, REFRESH)
        flushed == refresh_token.token \notin TokenStrings(banned)
    IN [flushed |-> flushed,
        tokens |-> IF flushed THEN banned \cup {refresh_token} ELSE banned,
        access |-> access_token.token,
        refresh |-> refresh_token.token]

\* token_service.creating_recording_access_token_to_user: mints an access
\* token and returns its string; no row is written.
creating_recording_access_token_to_user(T, user_id, token_scopes) ==
    LET access_token == creating_recording_token_to_user(user_id, token_scopes, ACCESS)
    IN [flushed |-> TRUE, tokens |-> T, access |-> access_token.token,
        refresh |-> NoToken]

\* AuthDAO.create_token: always signed with the access secret
AuthDAO_create_token(sub, scopes, expires_delta) ==
    LET expire == now + expires_delta
    IN [token |-> jwt_encode(sub, scopes, expire, TAPI_TOKEN_ACCESS_SECRET_KEY),
        expire |-> expire]

\* AuthDAO.creating_recording_token_to_user
AuthDAO_creating_recording_token_to_user(user_id, token_scopes, expires_delta, token_type) ==
    LET t == AuthDAO_create_token(user_id, token_scopes, expires_delta)
    IN [user_id |-> user_id, token |-> t.token, expires_at |-> t.expire,
        token_type |-> token_type, ban |-> FALSE]

\* an issuer that bans the REFRESH rows and leaves the ACCESS rows alone
AuthDAO_creating_recording_all_token_to_user_keeps_access(T, user_id, token_scopes) ==
    LET mine == RowsOf(T, user_id)
        kept == {IF r.token_type = REFRESH THEN [r EXCEPT !.ban = TRUE] ELSE r : r \in mine}
                     \cup (T \ mine)
        access_token == AuthDAO_creating_recording_token_to_user(
                            user_id, token_scopes, ACCESS_MINUTES, ACCESS)
        refresh_token == AuthDAO_creating_recording_token_to_user(
                            user_id, token_scopes, DAO_REFRESH_MINUTES, REFRESH)
        flushed == /\ access_token.token \notin TokenStrings(kept)
                   /\ refresh_token.token \notin TokenStrings(kept)
                   /\ access_token.token # refresh_token.token
    IN [flushed |-> flushed,
        tokens |-> IF flushed THEN kept \cup {access_token, refresh_token} ELSE kept,
        access |-> access_token.token,
        refresh |-> refresh_token.token]

\* AuthDAO.creating_recording_all_token_to_user: ban the REFRESH rows, delete
\* the ACCESS rows, mint both, append both, flush.
AuthDAO_creating_recording_all_token_to_user(T, user_id, token_scopes) ==
    LET mine == RowsOf(T, user_id)
        kept == {[r EXCEPT !.ban = TRUE] : r \in {x \in mine : x.token_type = REFRESH}}
                     \cup (T \ mine)
        access_token == AuthDAO_creating_recording_token_to_user(
                            user_id, token_scopes, ACCESS_MINUTES, ACCESS)
        refresh_token == AuthDAO_creating_recording_token_to_user(
                            user_id, token_scopes, DAO_REFRESH_MINUTES, REFRESH)
        flushed == /\ access_token.token \notin TokenStrings(kept)
                   /\ refresh_token.token \notin TokenStrings(kept)
                   /\ access_token.token # refresh_token.token
    IN [flushed |-> flushed,
        tokens |-> IF flushed THEN kept \cup {access_token, refresh_token} ELSE kept,
        access |-> access_token.token,
        refresh |-> refresh_token.token]

\* AuthDAO.creating_recording_access_token_to_user: delete the ACCESS rows,
\* mint one, append it (written by the request's commit).
AuthDAO_creating_recording_access_token_to_user(T, user_id, token_scopes) ==
    LET kept == {r \in T : ~(r.user_id = user_id /\ r.token_type = ACCESS)}
        access_token == AuthDAO_creating_recording_token_to_user(
                            user_id, token_scopes, ACCESS_MINUTES, ACCESS)
        flushed == access_token.token \notin TokenStrings(kept)
    IN [flushed |-> flushed,
        tokens |-> IF flushed THEN kept \cup {access_token} ELSE kept,
        access |-> access_token.token,
        refresh |-> NoToken]

\* ------------------------------------------------------ authorization gate

UserExists(id) == id \in UserIds /\ users[id].exists

\* the gate's row lookup with a type-blind WHERE clause
check_access_token_any_kind(token, user_id) ==
    \E r \in tokens : /\ r.user_id = user_id
                      /\ r.ban = FALSE
                      /\ r.token = token

\* get_current_user, the lookup of the presented string: a row of the
\* account, of kind ACCESS, not banned, with exactly this string
check_access_token(token, user_id) ==
    \E r \in tokens : /\ r.user_id = user_id
                      /\ r.token_type = ACCESS
                      /\ r.ban = FALSE
                      /\ r.token = token

\* a scope check that wants every required scope
rig_all_required(security_scopes, token_scopes) ==
    \A scope \in security_scopes : scope \in token_scopes

\* get_current_user, the scope check ("rig"): nothing required, or some
\* required scope is among the token's
rig(security_scopes, token_scopes) ==
    security_scopes = {} \/ \E scope \in security_scopes : scope \in token_scopes

\* a gate that does not look at user.is_banned
get_current_user_ignores_ban(token, security_scopes) ==
    LET decoded == jwt_decode(token, TAPI_TOKEN_ACCESS_SECRET_KEY)
    IN IF decoded = "ExpiredSignatureError" THEN "TokenExpiredException"
       ELSE IF decoded = "JWTError" THEN "InvalidJWTException"
       ELSE IF token.sub = NoSub THEN "UserIdNotFoundException"
       ELSE IF ~rig(security_scopes, token.scopes) THEN "ForbiddenAccessException"
       ELSE IF token.exp = Null THEN "TypeError"
       ELSE IF token.exp < now THEN "TokenExpiredException"
       ELSE IF ~UserExists(token.sub) THEN "UserNotFoundException"
       ELSE IF ~check_access_token(token, token.sub) THEN "TokenMismatchException"
       ELSE "ALLOW"

\* a gate that does not look the presented string up among the token rows
get_current_user_without_row(token, security_scopes) ==
    LET decoded == jwt_decode(token, TAPI_TOKEN_ACCESS_SECRET_KEY)
    IN IF decoded = "ExpiredSignatureError" THEN "TokenExpiredException"
       ELSE IF decoded = "JWTError" THEN "InvalidJWTException"
       ELSE IF token.sub = NoSub THEN "UserIdNotFoundException"
       ELSE IF ~rig(security_scopes, token.scopes) THEN "ForbiddenAccessException"
       ELSE IF token.exp = Null THEN "TypeError"
       ELSE IF token.exp < now THEN "TokenExpiredException"
       ELSE IF ~UserExists(token.sub) THEN "UserNotFoundException"
       ELSE IF users[token.sub].is_banned THEN "UserBannedException"
       ELSE "ALLOW"

\* get_current_user (core/security/auth.py): the gate's verdict on a bearer
\* token for an operation declaring security_scopes.  A token without "exp"
\* makes int(expire) raise TypeError.
get_current_user(token, security_scopes) ==
    LET decoded == jwt_decode(token, TAPI_TOKEN_ACCESS_SECRET_KEY)
        user_id == token.sub
        token_scopes == token.scopes
        expire == token.exp
    IN IF decoded = "ExpiredSignatureError" THEN "TokenExpiredException"
       ELSE IF decoded = "JWTError" THEN "InvalidJWTException"
       ELSE IF user_id = NoSub THEN "UserIdNotFoundException"
       ELSE IF ~rig(security_scopes, token_scopes) THEN "ForbiddenAccessException"
       ELSE IF expire = Null THEN "TypeError"
       ELSE IF expire < now THEN "TokenExpiredException"
       ELSE IF ~UserExists(user_id) THEN "UserNotFoundException"
       ELSE IF ~check_access_token(token, user_id) THEN "TokenMismatchException"
       ELSE IF users[user_id].is_banned THEN "UserBannedException"
       ELSE "ALLOW"

\* The gate's one write, user.last_login_attempt = now (committed when the
\* request succeeds), is left out of the state: the column is read nowhere in
\* the repository, so no verdict and no token row depends on it.

\* ------------------------------------------------ what a client can present

BaseTokens ==
    TokenStrings(tokens)
      \cup {session[u].access : u \in UserIds} \cup {session[u].refresh : u \in UserIds}
      \cup {last.access, last.refresh}

\* tokens built without the server's help (foreign key), and tokens only a
\* key holder could build (no sub, no exp, the id of no account, the refresh
\* secret)
CraftedTokens ==
    {jwt_encode(1, {"USER"}, now + ACCESS_MINUTES, ForeignKey),
     jwt_encode(NoSub, {"USER"}, now + ACCESS_MINUTES, TAPI_TOKEN_ACCESS_SECRET_KEY),
     jwt_encode(1, {"USER"}, Null, TAPI_TOKEN_ACCESS_SECRET_KEY),
     jwt_encode(MaxUsers + 1, {"USER"}, now + ACCESS_MINUTES, TAPI_TOKEN_ACCESS_SECRET_KEY),
     jwt_encode(1, {"USER"}, now + ACCESS_MINUTES, TAPI_TOKEN_REFRESH_SECRET_KEY)}

Presentable == (BaseTokens \ {NoToken}) \cup CraftedTokens

\* ---------------------------------------------------- credential verifier

\* the bcrypt hash stored for a password
get_password_hash(password) == <<"bcrypt", password>>

\* authentication_service.verify_password
verify_password(plain_password, hashed_password) ==
    hashed_password = get_password_hash(plain_password)

UserByEmail(email) ==
    IF \E u \in UserIds : users[u].exists /\ users[u].email = email
    THEN CHOOSE u \in UserIds : users[u].exists /\ users[u].email = email
    ELSE 0

\* authentication_service.authenticate_user: the account id, 0 when no
\* account has the identifier, or the exception raised on a wrong password
authenticate_user(email, password) ==
    LET user == UserByEmail(email)
    IN IF user = 0 THEN [user |-> 0, raised |-> None]
       ELSE IF ~verify_password(password, users[user].password)
            THEN [user |-> user, raised |-> "RefreshPasswordInvalidException"]
       ELSE [user |-> user, raised |-> None]

\* ---------------------------------------------------------------- requests

Response(op, user, res, access, refresh, presented, scopes) ==
    [op |-> op, user |-> user, res |-> res, access |-> access,
     refresh |-> refresh, presented |-> presented, scopes |-> scopes]

\* A handler that raises rolls its transaction back: no table changes, and
\* `last` keeps the last response that was served successfully.  What the
\* request is answered is given by the verdict operators.
Failure(op, res) == last

FreeIds == {u \in UserIds : ~users[u].exists}

\* roles a registration grants (register_user, "scopes_rights")
scopes_rights(email) ==
    {"USER"} \cup (IF email \in list_adm_email THEN {"ADMIN", "SYSADMIN"} ELSE {})
             \cup (IF email \in list_dev_email THEN {"DEVELOPER"} ELSE {})

NewUserRow(email) ==
    [NoUserRow EXCEPT !.exists = TRUE, !.email = email,
                      !.password = get_password_hash("secret1a"),
                      !.roles = scopes_rights(email)]

\* one response carrying tokens: the rows are committed, the pair becomes
\* the account's current session when it is a login or a registration
Issue(op, user, out, newUsers, isSession, presented, scopes) ==
    IF out.flushed
    THEN /\ tokens' = out.tokens
         /\ users' = newUsers
         /\ issues' = issues + 1
         /\ session' = IF isSession
                       THEN [session EXCEPT ![user] =
                                [access |-> out.access, refresh |-> out.refresh]]
                       ELSE session
         /\ last' = Response(op, user, "ok", out.access, out.refresh, presented, scopes)
    ELSE /\ last' = Failure(op, "PendingRollbackError")
         /\ UNCHANGED <<tokens, users, issues, session>>

\* ------------------------------------------------- verification tokens

EMAIL_VERIFICATION == "email_verification_tokens"
CHANGE_EMAIL_VERIFICATION == "change_email_verification_tokens"
RESET_PASSWORD == "reset_password_tokens"

\* secrets.token_urlsafe(32): a string no row carries yet
token_urlsafe == Cardinality(verifications) + 1

\* EmailVerificationToken(email), ChangeEmailVerificationToken(email,
\* new_email), ResetPasswordToken(email): a fresh token string, ban false,
\* thirty days to live
VerificationToken(table, email, new_email) ==
    [table |-> table, email |-> email, new_email |-> new_email,
     token |-> token_urlsafe, ban |-> FALSE,
     expires_at |-> now + VERIFICATION_MINUTES]

\* POST /auth/register (api/v1); the verification mail is its last step
register_user(email) ==
    /\ UNCHANGED <<tx, attempts>>
    /\ issues < MaxIssue
    /\ UNCHANGED <<now, ticks>>
    /\ IF UserByEmail(email) # 0
       THEN /\ last' = Failure("register_user", "UserAlreadyExistsException")
            /\ UNCHANGED <<tokens, users, issues, session, verifications>>
       ELSE /\ FreeIds # {}
            /\ LET new_user == CHOOSE u \in FreeIds : \A v \in FreeIds : u <= v
                   out == creating_recording_all_token_to_user(
                              tokens, new_user, scopes_rights(email))
               IN /\ Issue("register_user", new_user, out,
                           [users EXCEPT ![new_user] = NewUserRow(email)], TRUE, NoToken, {})
                  /\ verifications' =
                        IF out.flushed
                        THEN verifications \cup {VerificationToken(EMAIL_VERIFICATION, email, None)}
                        ELSE verifications

\* the scope set a login grants: every requested scope must be a role of the
\* account (else ForbiddenException, rendered as "forbidden"); an empty
\* request grants every role
login_scopes(user, scopes) ==
    LET token_scopes == users[user].roles
    IN IF \E sc \in scopes : sc \notin token_scopes THEN [ok |-> FALSE, scopes |-> {}]
       ELSE IF scopes # {} THEN [ok |-> TRUE, scopes |-> token_scopes \cap scopes]
       ELSE [ok |-> TRUE, scopes |-> token_scopes]

\* POST /auth/login that does not look at is_banned
login_user_skips_ban(email, password, scopes) ==
    /\ UNCHANGED <<tx, verifications>>
    /\ issues < MaxIssue
    /\ UNCHANGED <<now, ticks>>
    /\ LET auth == authenticate_user(email, password)
           user == auth.user
       IN IF user = 0
          THEN /\ last' = Failure("login_user", "EmailOrPasswordInvalidException")
               /\ UNCHANGED <<tokens, users, issues, session>>
          ELSE IF auth.raised # None
          THEN /\ last' = Failure("login_user", auth.raised)
               /\ UNCHANGED <<tokens, users, issues, session>>
          ELSE IF ~login_scopes(user, scopes).ok
          THEN /\ last' = Failure("login_user", "ForbiddenException")
               /\ UNCHANGED <<tokens, users, issues, session>>
          ELSE Issue("login_user", user,
                     creating_recording_all_token_to_user(
                         tokens, user, login_scopes(user, scopes).scopes),
                     users, TRUE, NoToken, scopes)

\* POST /auth/login (api/v1)
login_user(email, password, scopes) ==
    /\ UNCHANGED <<tx, verifications>>
    /\ issues < MaxIssue
    /\ UNCHANGED <<now, ticks>>
    /\ LET auth == authenticate_user(email, password)
           user == auth.user
       IN IF user = 0
          THEN /\ last' = Failure("login_user", "EmailOrPasswordInvalidException")
               /\ UNCHANGED <<tokens, users, issues, session>>
          ELSE IF auth.raised # None
          THEN /\ last' = Failure("login_user", auth.raised)
               /\ UNCHANGED <<tokens, users, issues, session>>
          ELSE IF users[user].is_banned
          THEN /\ last' = Failure("login_user", "UserBannedException")
               /\ UNCHANGED <<tokens, users, issues, session>>
          ELSE IF ~login_scopes(user, scopes).ok
          THEN /\ last' = Failure("login_user", "ForbiddenException")
               /\ UNCHANGED <<tokens, users, issues, session>>
          ELSE Issue("login_user", user,
                     creating_recording_all_token_to_user(
                         tokens, user, login_scopes(user, scopes).scopes),
                     users, TRUE, NoToken, scopes)

\* what POST /auth/login (api/v1) answers: "ok" or the exception raised.  A
\* flush that failed inside creating_recording_all_token_to_user is only
\* logged there; the handler goes on to db.commit(), which raises
login_verdict(email, password, scopes) ==
    LET auth == authenticate_user(email, password)
        user == auth.user
    IN IF user = 0 THEN "EmailOrPasswordInvalidException"
       ELSE IF auth.raised # None THEN auth.raised
       ELSE IF users[user].is_banned THEN "UserBannedException"
       ELSE IF ~login_scopes(user, scopes).ok THEN "ForbiddenException"
       ELSE IF ~creating_recording_all_token_to_user(
                    tokens, user, login_scopes(user, scopes).scopes).flushed
            THEN "PendingRollbackError"
       ELSE "ok"

\* error_handlers.http_exception_handler on what login raises: the status,
\* the X-Error-Code and the detail the client sees (the details are the
\* Russian messages of core/exceptions.py, rendered in English); any other
\* exception is answered by general_exception_handler
http_exception_handler(exc) ==
    IF exc = "EmailOrPasswordInvalidException"
    THEN [status_code |-> 401, code |-> "1003", detail |-> "wrong e-mail or password"]
    ELSE IF exc = "RefreshPasswordInvalidException"
    THEN [status_code |-> 401, code |-> "1003", detail |-> "wrong password"]
    ELSE IF exc = "UserBannedException"
    THEN [status_code |-> 403, code |-> "1104", detail |-> "user is banned"]
    ELSE IF exc = "ForbiddenException"
    THEN [status_code |-> 403, code |-> "1600", detail |-> "access denied"]
    ELSE IF exc = "ok"
    THEN [status_code |-> 200, code |-> None, detail |-> None]
    ELSE [status_code |-> 500, code |-> "internal_error", detail |-> "Internal server error"]

\* the verdict of PUT /auth/refresh (api/v1) on a refresh_token cookie
\* (NoToken: no cookie): "ok" or the exception raised
refresh_verdict(refresh_token) ==
    IF refresh_token = NoToken THEN "TokenNotFoundException"
    ELSE IF jwt_decode(refresh_token, TAPI_TOKEN_REFRESH_SECRET_KEY) # "ok"
         THEN "InvalidJWTException"
    ELSE IF refresh_token.sub = NoSub THEN "UserIdNotFoundException"
    ELSE IF ~UserExists(refresh_token.sub) THEN "UserNotFoundException"
    ELSE IF ~\E r \in tokens : /\ r.user_id = refresh_token.sub
                               /\ r.token_type = REFRESH
                               /\ r.ban = FALSE
                               /\ r.token = refresh_token
         THEN "TokenMismatchException"
    ELSE "ok"

\* a refresh that grants whatever the presented token carries
refresh_scopes_of_token(refresh_token) == refresh_token.scopes

\* the scope set a refresh grants: the roles of the account that the
\* presented token also carries; a token without scopes grants none
refresh_scopes(refresh_token) ==
    IF refresh_token.scopes # {}
    THEN users[refresh_token.sub].roles \cap refresh_token.scopes
    ELSE refresh_token.scopes

\* PUT /auth/refresh (api/v1)
refresh(refresh_token) ==
    /\ UNCHANGED <<tx, attempts, verifications>>
    /\ issues < MaxIssue
    /\ UNCHANGED <<now, ticks>>
    /\ IF refresh_verdict(refresh_token) # "ok"
       THEN /\ last' = Failure("refresh", refresh_verdict(refresh_token))
            /\ UNCHANGED <<tokens, users, issues, session>>
       ELSE Issue("refresh", refresh_token.sub,
                  creating_recording_access_token_to_user(
                      tokens, refresh_token.sub, refresh_scopes(refresh_token)),
                  users, FALSE, refresh_token, {})

\* The handlers below declare Security(get_current_user, scopes=[...]): the
\* gate runs as a dependency and the handler body is entered only when it
\* returns the user.  A denial raises before the body and the transaction is
\* rolled back; what it answers is given by get_current_user.

\* POST /auth/logout (api/v1): behind the gate with scopes ["USER"];
\* `user_data.tokens.ban = True` sets an attribute on the relationship's
\* list object and changes no row
logout_user(token) ==
    /\ get_current_user(token, {"USER"}) = "ALLOW"
    /\ last' = Response("logout_user", token.sub, "ok", NoToken, NoToken, token, {})
    /\ UNCHANGED <<now, ticks, tokens, issues, session, users, tx, attempts, verifications>>

\* any other endpoint declared with Security(get_current_user, scopes=...)
protected_request(token, security_scopes) ==
    /\ get_current_user(token, security_scopes) = "ALLOW"
    /\ last' = Response("protected_request", token.sub, "ALLOW", NoToken, NoToken, token, {})
    /\ UNCHANGED <<now, ticks, tokens, issues, session, users, tx, attempts, verifications>>

\* PUT /admin/{id}/ban_on
ban_on_user(token, id, duration) ==
    /\ get_current_user(token, {"ADMIN", "SYSADMIN"}) = "ALLOW"
    /\ UNCHANGED <<now, ticks, tokens, issues, session, tx, attempts, verifications>>
    /\ IF ~UserExists(id)
       THEN /\ last' = Failure("ban_on_user", "UserNotFoundException")
            /\ UNCHANGED users
       ELSE /\ users' = [users EXCEPT
                            ![id].is_banned = TRUE,
                            ![id].ban_until = now + duration]
            /\ last' = Response("ban_on_user", id, "ok", NoToken, NoToken, NoToken, {})

\* PUT /admin/{id}/ban_off
ban_off_user(token, id) ==
    /\ get_current_user(token, {"ADMIN", "SYSADMIN"}) = "ALLOW"
    /\ UNCHANGED <<now, ticks, tokens, issues, session, tx, attempts, verifications>>
    /\ IF ~UserExists(id)
       THEN /\ last' = Failure("ban_off_user", "UserNotFoundException")
            /\ UNCHANGED users
       ELSE /\ users' = [users EXCEPT
                            ![id].is_banned = FALSE,
                            ![id].ban_until = Null]
            /\ last' = Response("ban_off_user", id, "ok", NoToken, NoToken, NoToken, {})

\* POST /admin/{id}/role: behind the gate with scopes ["ADMIN", "SYSADMIN"]
post_user_role(token, id, role) ==
    /\ get_current_user(token, {"ADMIN", "SYSADMIN"}) = "ALLOW"
    /\ UNCHANGED <<now, ticks, tokens, issues, session, tx, attempts, verifications>>
    /\ IF ~UserExists(id)
       THEN /\ last' = Failure("post_user_role", "UserNotFoundException")
            /\ UNCHANGED users
       ELSE IF role \in users[id].roles
       THEN /\ last' = Failure("post_user_role", "RoleAlreadyAssignedException")
            /\ UNCHANGED users
       ELSE /\ users' = [users EXCEPT ![id].roles = @ \cup {role}]
            /\ last' = Response("post_user_role", id, "ok", NoToken, NoToken, NoToken, {})

\* DELETE /admin/{id}/role: behind the gate with scopes ["ADMIN", "SYSADMIN"]
delete_user_role(token, id, role) ==
    /\ get_current_user(token, {"ADMIN", "SYSADMIN"}) = "ALLOW"
    /\ UNCHANGED <<now, ticks, tokens, issues, session, tx, attempts, verifications>>
    /\ IF ~UserExists(id)
       THEN /\ last' = Failure("delete_user_role", "UserNotFoundException")
            /\ UNCHANGED users
       ELSE IF role \notin users[id].roles
       THEN /\ last' = Failure("delete_user_role", "RoleNotAssignedException")
            /\ UNCHANGED users
       ELSE /\ users' = [users EXCEPT ![id].roles = @ \ {role}]
            /\ last' = Response("delete_user_role", id, "ok", NoToken, NoToken, NoToken, {})

\* ------------------------------------------- the AuthAPI generation (AuthDAO)

\* AuthDAO.authenticate_user
AuthDAO_authenticate_user(email, password) ==
    LET user == UserByEmail(email)
    IN IF user = 0 THEN [user |-> 0, raised |-> None]
       ELSE IF ~verify_password(password, users[user].password)
            THEN [user |-> user, raised |-> "RefreshPasswordInvalidException"]
       ELSE [user |-> user, raised |-> None]

\* AuthAPI.register (POST /register); the verification mail is its last step
AuthAPI_register_user(email) ==
    /\ UNCHANGED <<tx, attempts>>
    /\ issues < MaxIssue
    /\ UNCHANGED <<now, ticks>>
    /\ IF UserByEmail(email) # 0
       THEN /\ last' = Failure("AuthAPI_register_user", "UserAlreadyExistsException")
            /\ UNCHANGED <<tokens, users, issues, session, verifications>>
       ELSE /\ FreeIds # {}
            /\ LET new_user == CHOOSE u \in FreeIds : \A v \in FreeIds : u <= v
                   out == AuthDAO_creating_recording_all_token_to_user(
                              tokens, new_user, scopes_rights(email))
               IN /\ Issue("AuthAPI_register_user", new_user, out,
                           [users EXCEPT ![new_user] = NewUserRow(email)], TRUE, NoToken, {})
                  /\ verifications' =
                        IF out.flushed
                        THEN verifications \cup {VerificationToken(EMAIL_VERIFICATION, email, None)}
                        ELSE verifications

\* AuthAPI.login (POST /login)
AuthAPI_login_user(email, password, scopes) ==
    /\ UNCHANGED <<tx, attempts, verifications>>
    /\ issues < MaxIssue
    /\ UNCHANGED <<now, ticks>>
    /\ LET auth == AuthDAO_authenticate_user(email, password)
           user == auth.user
       IN IF user = 0
          THEN /\ last' = Failure("AuthAPI_login_user", "EmailOrPasswordInvalidException")
               /\ UNCHANGED <<tokens, users, issues, session>>
          ELSE IF auth.raised # None
          THEN /\ last' = Failure("AuthAPI_login_user", auth.raised)
               /\ UNCHANGED <<tokens, users, issues, session>>
          ELSE IF users[user].is_banned
          THEN /\ last' = Failure("AuthAPI_login_user", "UserBannedException")
               /\ UNCHANGED <<tokens, users, issues, session>>
          ELSE IF ~login_scopes(user, scopes).ok
          THEN /\ last' = Failure("AuthAPI_login_user", "ForbiddenException")
               /\ UNCHANGED <<tokens, users, issues, session>>
          ELSE Issue("AuthAPI_login_user", user,
                     AuthDAO_creating_recording_all_token_to_user(
                         tokens, user, login_scopes(user, scopes).scopes),
                     users, TRUE, NoToken, scopes)

\* the verdict of AuthAPI.refresh (PUT /refresh): the cookie is decoded with
\* the access secret
AuthAPI_refresh_verdict(refresh_token) ==
    IF refresh_token = NoToken THEN "TokenNotFoundException"
    ELSE IF jwt_decode(refresh_token, TAPI_TOKEN_ACCESS_SECRET_KEY) # "ok"
         THEN "InvalidJWTException"
    ELSE IF refresh_token.sub = NoSub THEN "UserIdNotFoundException"
    ELSE IF ~UserExists(refresh_token.sub) THEN "UserNotFoundException"
    ELSE IF ~\E r \in tokens : /\ r.user_id = refresh_token.sub
                               /\ r.token_type = REFRESH
                               /\ r.ban = FALSE
                               /\ r.token = refresh_token
         THEN "TokenMismatchException"
    ELSE "ok"

\* AuthAPI.refresh (PUT /refresh)
AuthAPI_refresh(refresh_token) ==
    /\ UNCHANGED <<tx, attempts, verifications>>
    /\ issues < MaxIssue
    /\ UNCHANGED <<now, ticks>>
    /\ IF AuthAPI_refresh_verdict(refresh_token) # "ok"
       THEN /\ last' = Failure("AuthAPI_refresh", AuthAPI_refresh_verdict(refresh_token))
            /\ UNCHANGED <<tokens, users, issues, session>>
       ELSE Issue("AuthAPI_refresh", refresh_token.sub,
                  AuthDAO_creating_recording_access_token_to_user(
                      tokens, refresh_token.sub, refresh_scopes(refresh_token)),
                  users, FALSE, refresh_token, {})

\* AuthAPI.logout (POST /logout): `access_token_assoc.ban = True` and
\* `refresh_token_assoc.ban = True` set attributes on the two relationship
\* lists and change no row
AuthAPI_logout_user(token) ==
    /\ get_current_user(token, {"USER"}) = "ALLOW"
    /\ last' = Response("AuthAPI_logout_user", token.sub, "ok", NoToken, NoToken, token, {})
    /\ UNCHANGED <<now, ticks, tokens, issues, session, users, tx, attempts, verifications>>

\* -------------------------------------------------------------- the clock

Tick(d) ==
    /\ UNCHANGED <<tx, attempts, verifications>>
    /\ ticks < MaxTicks
    /\ now' = now + d
    /\ ticks' = ticks + 1
    /\ UNCHANGED <<users, tokens, issues, session, last>>

\* ------------------------------------------------------------ specification

Init ==
    /\ users = [u \in UserIds |-> NoUserRow]
    /\ tokens = {}
    /\ now = 0
    /\ ticks = 0
    /\ issues = 0
    /\ session = [u \in UserIds |-> NoSession]
    /\ last = NoLast
    /\ tx = [p \in Procs |-> NoTx]
    /\ attempts = NoAttempts
    /\ verifications = {}

\* Requests present the tokens clients have been handed (BaseTokens; NoToken
\* stands for a request without cookie).  A crafted token never passes the
\* row lookup, so presenting one changes nothing; what it is answered is
\* covered by the verdict operators.
Next ==
    \/ \E email \in Emails : register_user(email)
    \/ \E email \in Emails, password \in Passwords, scopes \in ScopeRequests :
          login_user(email, password, scopes) /\ UNCHANGED attempts
    \/ \E t \in BaseTokens : refresh(t)
    \/ \E t \in BaseTokens : logout_user(t)
    \/ \E t \in BaseTokens, sc \in RequiredScopes : protected_request(t, sc)
    \/ \E t \in BaseTokens, id \in UserIds, d \in BanDurations : ban_on_user(t, id, d)
    \/ \E t \in BaseTokens, id \in UserIds : ban_off_user(t, id)
    \/ \E email \in Emails : AuthAPI_register_user(email)
    \/ \E email \in Emails, password \in Passwords, scopes \in ScopeRequests :
          AuthAPI_login_user(email, password, scopes)
    \/ \E t \in BaseTokens : AuthAPI_refresh(t)
    \/ \E t \in BaseTokens : AuthAPI_logout_user(t)
    \/ \E d \in TickSteps : Tick(d)

Spec == Init /\ [][Next]_vars

\* ------------------------------------------------- concurrent POST /auth/login
\* Each request runs login_user in a database transaction of its own
\* (TransactionSessionDep) on PostgreSQL at its default isolation level,
\* READ COMMITTED.  A statement sees the rows committed when it starts; an
\* UPDATE locks the rows it changes until its transaction ends and waits for
\* rows another transaction has locked; an INSERT of a token string another
\* open transaction has inserted waits for that transaction.  The code takes
\* no other lock.

\* the requests in flight
Active == {p \in Procs : tx[p].pc # "idle"}

\* token strings whose rows another open transaction has locked
LockedByOthers(p) == UNION {tx[q].locked : q \in Procs \ {p}}

\* login_user up to the call of creating_recording_all_token_to_user
login_begin(p, email, password, scopes) ==
    /\ tx[p].pc = "idle"
    /\ issues + Cardinality(Active) < MaxIssue
    /\ LET auth == authenticate_user(email, password)
           user == auth.user
       IN /\ user # 0
          /\ auth.raised = None
          /\ ~users[user].is_banned
          /\ login_scopes(user, scopes).ok
          /\ tx' = [tx EXCEPT ![p] = [NoTx EXCEPT !.pc = "execute", !.user = user,
                                                  !.scopes = login_scopes(user, scopes).scopes]]
    /\ UNCHANGED <<users, tokens, now, ticks, issues, session, last, attempts, verifications>>

\* update(Token).where(Token.user_id == user.id): the statement starts and
\* takes its snapshot of the rows to change
execute_update(p) ==
    /\ tx[p].pc = "execute"
    /\ tx' = [tx EXCEPT ![p].pc = "flush",
                        ![p].seen = TokenStrings(RowsOf(tokens, tx[p].user))]
    /\ UNCHANGED <<users, tokens, now, ticks, issues, session, last, attempts, verifications>>

\* ... .values(ban=True): the rows of the snapshot are locked and changed,
\* once no other transaction holds one of them
flush_update(p) ==
    /\ tx[p].pc = "flush"
    /\ tx[p].seen \cap LockedByOthers(p) = {}
    /\ tx' = [tx EXCEPT ![p].pc = "add", ![p].locked = tx[p].seen]
    /\ UNCHANGED <<users, tokens, now, ticks, issues, session, last, attempts, verifications>>

\* the two tokens are minted and the refresh row is flushed; a duplicate of
\* a committed token string fails the flush, which the code swallows, and the
\* commit of the request then fails: the transaction is rolled back
add_tokens(p) ==
    /\ tx[p].pc = "add"
    /\ LET access_token == creating_recording_token_to_user(tx[p].user, tx[p].scopes, ACCESS)
           refresh_token == creating_recording_token_to_user(tx[p].user, tx[p].scopes, REFRESH)
       IN /\ \A q \in Procs \ {p} : refresh_token.token \notin TokenStrings(tx[q].added)
          /\ IF refresh_token.token \in TokenStrings(tokens)
             THEN tx' = [tx EXCEPT ![p] = NoTx]
             ELSE tx' = [tx EXCEPT ![p].pc = "commit", ![p].added = {refresh_token},
                                   ![p].access = access_token.token]
    /\ UNCHANGED <<users, tokens, now, ticks, issues, session, last, attempts, verifications>>

\* the response is built and the transaction commits
commit(p) ==
    /\ tx[p].pc = "commit"
    /\ LET refresh_token == CHOOSE r \in tx[p].added : TRUE
       IN /\ tokens' = {IF r.token \in tx[p].locked THEN [r EXCEPT !.ban = TRUE] ELSE r :
                           r \in tokens} \cup tx[p].added
          /\ session' = [session EXCEPT ![tx[p].user] =
                            [access |-> tx[p].access, refresh |-> refresh_token.token]]
          /\ last' = Response("login_user", tx[p].user, "ok", tx[p].access,
                              refresh_token.token, NoToken, {})
    /\ issues' = issues + 1
    /\ tx' = [tx EXCEPT ![p] = NoTx]
    /\ UNCHANGED <<users, now, ticks, attempts, verifications>>

ConcNext ==
    \/ /\ issues + Cardinality(Active) < MaxIssue
       /\ \E email \in Emails : register_user(email)
    \/ \E d \in TickSteps : Tick(d)
    \/ \E p \in Procs, email \in Emails, scopes \in ScopeRequests :
          login_begin(p, email, "secret1a", scopes)
    \/ \E p \in Procs : execute_update(p)
    \/ \E p \in Procs : flush_update(p)
    \/ \E p \in Procs : add_tokens(p)
    \/ \E p \in Procs : commit(p)

\* --------------------------------------------- logins, attempt by attempt

\* the wrong-password logins of an account in a row so far
WrongInARow(user) == IF attempts.user = user THEN attempts.wrong ELSE 0

\* POST /auth/login (api/v1) for an account that exists, with the attempt
\* written down: a wrong password adds one to the account's run of failures,
\* a right one ends the run
login_attempt(email, password, scopes) ==
    LET user == UserByEmail(email)
        failed == authenticate_user(email, password).raised # None
    IN /\ user # 0
       /\ failed => WrongInARow(user) < MaxWrong
       /\ login_user(email, password, scopes)
       /\ attempts' = [wrong |-> IF failed THEN WrongInARow(user) + 1 ELSE 0,
                       failed_at |-> IF failed THEN now ELSE attempts.failed_at,
                       user |-> user,
                       correct |-> ~failed,
                       verdict |-> login_verdict(email, password, scopes)]

LoginNext ==
    \/ \E email \in Emails : register_user(email)
    \/ \E email \in Emails : AuthAPI_register_user(email)
    \/ \E email \in Emails, password \in Passwords, scopes \in ScopeRequests :
          login_attempt(email, password, scopes)
    \/ \E t \in BaseTokens, id \in UserIds, d \in BanDurations : ban_on_user(t, id, d)
    \/ \E t \in BaseTokens, id \in UserIds : ban_off_user(t, id)
    \/ \E d \in TickSteps : Tick(d)

LoginSpec == Init /\ [][LoginNext]_vars

\* ------------------------------------------------- the lockout functions

\* authentication_service.handle_failed_login with > for >=
handle_failed_login_above_limit(user) ==
    /\ UserExists(user)
    /\ users[user].failed_attempts < MaxFailed
    /\ UNCHANGED <<tokens, now, ticks, issues, session, tx, attempts, verifications>>
    /\ IF users[user].is_banned
       THEN /\ UNCHANGED users
            /\ last' = Response("handle_failed_login", user, None,
                                NoToken, NoToken, NoToken, {})
       ELSE LET failed_attempts == users[user].failed_attempts + 1
            IN IF failed_attempts > FAILED_ATTEMPTS_LIMIT
               THEN /\ users' = [users EXCEPT
                                    ![user].failed_attempts = failed_attempts,
                                    ![user].is_banned = TRUE,
                                    ![user].ban_until = now + LOCKOUT_MINUTES]
                    /\ last' = Response("handle_failed_login", user, "403",
                                        NoToken, NoToken, NoToken, {})
               ELSE /\ users' = [users EXCEPT
                                    ![user].failed_attempts = failed_attempts]
                    /\ last' = Response("handle_failed_login", user, None,
                                        NoToken, NoToken, NoToken, {})

\* authentication_service.handle_failed_login (UsersDAO.handle_failed_login
\* is the same code): nothing for a banned account; else one more failure,
\* and at the limit the account is locked; commit
handle_failed_login(user) ==
    /\ UserExists(user)
    /\ users[user].failed_attempts < MaxFailed
    /\ UNCHANGED <<tokens, now, ticks, issues, session, tx, attempts, verifications>>
    /\ IF users[user].is_banned
       THEN /\ UNCHANGED users
            /\ last' = Response("handle_failed_login", user, None,
                                NoToken, NoToken, NoToken, {})
       ELSE LET failed_attempts == users[user].failed_attempts + 1
            IN IF failed_attempts >= FAILED_ATTEMPTS_LIMIT
               THEN /\ users' = [users EXCEPT
                                    ![user].failed_attempts = failed_attempts,
                                    ![user].is_banned = TRUE,
                                    ![user].ban_until = now + LOCKOUT_MINUTES]
                    /\ last' = Response("handle_failed_login", user, "403",
                                        NoToken, NoToken, NoToken, {})
               ELSE /\ users' = [users EXCEPT
                                    ![user].failed_attempts = failed_attempts]
                    /\ last' = Response("handle_failed_login", user, None,
                                        NoToken, NoToken, NoToken, {})

\* authentication_service.check_user_ban (UsersDAO.check_user_ban is the same
\* code): None for an account that is not banned; a ban whose time has come
\* is lifted; else the time left is returned.  ban_until.replace on a null
\* ban_until raises AttributeError.
check_user_ban(user) ==
    /\ UserExists(user)
    /\ UNCHANGED <<tokens, now, ticks, issues, session, tx, attempts, verifications>>
    /\ IF ~users[user].is_banned
       THEN /\ UNCHANGED users
            /\ last' = Response("check_user_ban", user, None,
                                NoToken, NoToken, NoToken, {})
       ELSE IF users[user].ban_until = Null
       THEN /\ UNCHANGED users
            /\ last' = Response("check_user_ban", user, "AttributeError",
                                NoToken, NoToken, NoToken, {})
       ELSE IF now >= users[user].ban_until
       THEN /\ users' = [users EXCEPT ![user].is_banned = FALSE,
                                      ![user].failed_attempts = 0,
                                      ![user].ban_until = Null]
            /\ last' = Response("check_user_ban", user, None,
                                NoToken, NoToken, NoToken, {})
       ELSE /\ UNCHANGED users
            /\ last' = Response("check_user_ban", user, "minutes",
                                NoToken, NoToken, NoToken, {})

\* authentication_service.remove_bans (UsersDAO.remove_bans is the same
\* code): every account with is_banned and ban_until <= now is reset
remove_bans ==
    /\ UNCHANGED <<tokens, now, ticks, issues, session, tx, attempts, verifications>>
    /\ users' = [u \in UserIds |->
                    IF /\ users[u].exists
                       /\ users[u].is_banned
                       /\ users[u].ban_until # Null
                       /\ users[u].ban_until <= now
                    THEN [users[u] EXCEPT !.is_banned = FALSE,
                                          !.failed_attempts = 0,
                                          !.ban_until = Null]
                    ELSE users[u]]
    /\ last' = Response("remove_bans", 0, None, NoToken, NoToken, NoToken, {})

LockoutNext ==
    \/ \E email \in Emails : AuthAPI_register_user(email)
    \/ \E user \in UserIds : handle_failed_login(user)
    \/ \E user \in UserIds : check_user_ban(user)
    \/ remove_bans
    \/ \E t \in BaseTokens, id \in UserIds, d \in BanDurations : ban_on_user(t, id, d)
    \/ \E t \in BaseTokens, id \in UserIds : ban_off_user(t, id)
    \/ \E d \in TickSteps : Tick(d)

LockoutSpec == Init /\ [][LockoutNext]_vars

\* --------------------------------------------- issuing while roles change

RoleNext ==
    \/ \E email \in Emails : register_user(email)
    \/ \E email \in Emails, password \in Passwords, scopes \in ScopeRequests :
          login_user(email, password, scopes) /\ UNCHANGED attempts
    \/ \E t \in BaseTokens : refresh(t)
    \/ \E email \in Emails : AuthAPI_register_user(email)
    \/ \E email \in Emails, password \in Passwords, scopes \in ScopeRequests :
          AuthAPI_login_user(email, password, scopes)
    \/ \E t \in BaseTokens : AuthAPI_refresh(t)
    \/ \E t \in BaseTokens, id \in UserIds, role \in RoleEnum : post_user_role(t, id, role)
    \/ \E t \in BaseTokens, id \in UserIds, role \in RoleEnum : delete_user_role(t, id, role)

RoleSpec == Init /\ [][RoleNext]_vars

ConcSpec == Init /\ [][ConcNext]_vars

TypeOK ==
    /\ now \in Nat
    /\ ticks \in 0..MaxTicks
    /\ issues \in 0..MaxIssue
    /\ \A r \in tokens : r.token_type \in {ACCESS, REFRESH} /\ r.ban \in BOOLEAN

\* =================================================================== claims

ActiveRows(user_id, kind) ==
    {r \in tokens : r.user_id = user_id /\ r.token_type = kind /\ r.ban = FALSE}

HasActiveRow(token, kind) ==
    \E r \in tokens : /\ r.token = token
                      /\ r.token_type = kind
                      /\ r.ban = FALSE
                      /\ r.user_id = token.sub

IssuingOps == {"register_user", "login_user", "refresh",
               "AuthAPI_register_user", "AuthAPI_login_user", "AuthAPI_refresh"}
LoginOps == {"login_user", "AuthAPI_login_user"}
LogoutOps == {"logout_user", "AuthAPI_logout_user"}

\* C1: after any sequence of register, login, refresh and logout requests,
\* each run to completion, every account owns at most one non-banned ACCESS
\* row and at most one non-banned REFRESH row.
C1_OneActiveTokenPerKind ==
    \A u \in UserIds : \A kind \in {ACCESS, REFRESH} :
        Cardinality(ActiveRows(u, kind)) <= 1

\* an account that has logged in again: a banned REFRESH row next to a
\* non-banned row of each kind
C1_Witness ==
    \E u \in UserIds :
        /\ \E r \in tokens : r.user_id = u /\ r.token_type = REFRESH /\ r.ban
        /\ ActiveRows(u, ACCESS) # {}
        /\ ActiveRows(u, REFRESH) # {}

\* C2 (as claimed): when two logins of one account overlap, then once both
\* have committed the account owns at most one non-banned REFRESH row.
C2_ConcurrentLoginsLeaveOneRefresh ==
    Active = {} => \A u \in UserIds : Cardinality(ActiveRows(u, REFRESH)) <= 1

\* what the gate checks before it looks the token row up
PassesEarlierChecks(token, security_scopes) ==
    /\ token.key = TAPI_TOKEN_ACCESS_SECRET_KEY
    /\ token.sub # NoSub
    /\ security_scopes = {} \/ security_scopes \cap token.scopes # {}
    /\ token.exp # Null
    /\ token.exp >= now
    /\ UserExists(token.sub)

\* C3: a request whose token has no non-banned ACCESS row owned by its
\* subject is never allowed, and when its signature is valid, it is unexpired
\* and it passes the checks made before the lookup, it is denied with
\* TokenMismatchException.
C3_NoRowIsDenied ==
    \A t \in Presentable : \A sc \in RequiredScopes :
        LET verdict == get_current_user(t, sc)
        IN ~HasActiveRow(t, ACCESS) =>
               /\ verdict # "ALLOW"
               /\ PassesEarlierChecks(t, sc) => verdict = "TokenMismatchException"

\* a token the server handed out as an access token, correctly signed and
\* unexpired, is refused for want of a row
C3_Witness ==
    \E u \in UserIds :
        /\ session[u].access # NoToken
        /\ PassesEarlierChecks(session[u].access, {"USER"})
        /\ ~HasActiveRow(session[u].access, ACCESS)
        /\ get_current_user(session[u].access, {"USER"}) = "TokenMismatchException"

\* C4 (as claimed): every token string returned by register, login or
\* refresh is stored as a non-banned row of the account with the matching
\* kind, so that the gate's lookup of a fresh access token finds its row.
C4_ReturnedTokensArePersisted ==
    (last.op \in IssuingOps /\ last.res = "ok") =>
        /\ HasActiveRow(last.access, ACCESS)
        /\ last.refresh # NoToken => HasActiveRow(last.refresh, REFRESH)

\* C5 (as claimed): after a successful logout the rows of the session are
\* banned and the same access token is denied from then on.
C5_LogoutRevokes ==
    (last.op \in LogoutOps /\ last.res = "ok") =>
        /\ \A r \in tokens : r.token = last.presented => r.ban
        /\ get_current_user(last.presented, {"USER"}) # "ALLOW"

\* C6: a successful login leaves no row of the account that existed before
\* it non-banned: each such row is banned or deleted (a deleted ACCESS row
\* may be written anew for the token this login mints), and the non-banned
\* rows of the account are rows of the tokens this login minted.
C6_LoginBansPriorTokens ==
    [][(last'.op \in LoginOps /\ issues' = issues + 1) =>
          /\ \A r \in tokens : (r.user_id = last'.user /\ ~r.ban /\ r \in tokens') =>
                 \* deleted and written anew by this login
                 (r.token_type = ACCESS /\ r.token = last'.access)
          /\ \A r \in tokens' : (r.user_id = last'.user /\ ~r.ban) =>
                 r.token \in {last'.access, last'.refresh}]_vars

\* a login has just succeeded for an account that had rows before
C6_Witness ==
    /\ last.op \in LoginOps
    /\ \E r \in tokens : r.user_id = last.user /\ r.ban
    /\ \E r \in tokens : r.user_id = last.user /\ ~r.ban

\* C7 (as claimed): the refresh token of the latest login, while its row is
\* non-banned, it is unexpired and the account exists, is accepted by
\* PUT /auth/refresh.
C7_RefreshAcceptsLoginToken ==
    (/\ last.op \in LoginOps
     /\ HasActiveRow(last.refresh, REFRESH)
     /\ last.refresh.exp >= now
     /\ UserExists(last.user)) =>
        refresh_verdict(last.refresh) = "ok"

\* C8 (as claimed): a refresh token banned by a later login and not yet
\* expired is refused by PUT /auth/refresh with TokenMismatchException.
C8_RevokedRefreshIsMismatch ==
    \A r \in tokens :
        (r.token_type = REFRESH /\ r.ban /\ r.token.exp >= now /\ UserExists(r.user_id)) =>
            refresh_verdict(r.token) = "TokenMismatchException"

DenyReasons == {"TokenExpiredException", "InvalidJWTException", "UserIdNotFoundException",
                "ForbiddenAccessException", "TypeError", "UserNotFoundException",
                "TokenMismatchException", "UserBannedException"}

\* C9: the gate allows a request exactly when the token verifies under the
\* access secret, carries a subject, passes the scope check, is unexpired,
\* its account exists, a non-banned ACCESS row with that string is owned by
\* the subject and the account is not banned; every other request is denied.
C9_AllowIffAllChecks ==
    \A t \in Presentable : \A sc \in RequiredScopes :
        LET verdict == get_current_user(t, sc)
        IN /\ verdict = "ALLOW" <=>
                 (/\ PassesEarlierChecks(t, sc)
                  /\ HasActiveRow(t, ACCESS)
                  /\ ~users[t.sub].is_banned)
           /\ verdict # "ALLOW" => verdict \in DenyReasons

\* a request has been allowed, and a banned account holds a token that
\* passes every other check
C9_Witness ==
    /\ last.op = "protected_request" /\ last.res = "ALLOW"
    /\ \E t \in Presentable :
          /\ PassesEarlierChecks(t, {}) /\ HasActiveRow(t, ACCESS)
          /\ users[t.sub].is_banned

\* C10: for a correctly signed, unexpired token with a subject, the scope
\* check fails (ForbiddenAccessException) exactly when the operation requires
\* scopes and none of them is among the token's scopes.
C10_ScopeCheck ==
    \A t \in Presentable : \A sc \in RequiredScopes :
        (jwt_decode(t, TAPI_TOKEN_ACCESS_SECRET_KEY) = "ok" /\ t.sub # NoSub) =>
            (get_current_user(t, sc) = "ForbiddenAccessException"
                <=> ~(sc = {} \/ \E scope \in sc : scope \in t.scopes))

\* one stored access token is forbidden on the admin endpoints and allowed
\* on a USER endpoint, another carries one of two required scopes
C10_Witness ==
    /\ \E t \in Presentable :
          /\ get_current_user(t, {"ADMIN", "SYSADMIN"}) = "ForbiddenAccessException"
          /\ get_current_user(t, {"USER"}) = "ALLOW"
    /\ \E t \in Presentable :
          /\ t.scopes = {"ADMIN"}
          /\ get_current_user(t, {"ADMIN", "SYSADMIN"}) = "ALLOW"

\* C11 (as claimed): a request whose token passes every other check of the
\* gate is denied with UserBannedException exactly when the account has
\* is_banned set and its ban has not run out (now < ban_until); once
\* ban_until has passed the request is not denied as banned.
C11_BannedOnlyInsideWindow ==
    \A t \in Presentable :
        (PassesEarlierChecks(t, {}) /\ HasActiveRow(t, ACCESS)) =>
            (get_current_user(t, {}) = "UserBannedException"
                <=> /\ users[t.sub].is_banned
                    /\ users[t.sub].ban_until # Null
                    /\ now < users[t.sub].ban_until)

\* C18 (as claimed): access and refresh tokens are signed with different
\* secrets: the token of every REFRESH row verifies under the refresh secret
\* and fails under the access secret, and the token of every ACCESS row
\* verifies under the access secret and fails under the refresh secret.
C18_KindsSignedWithOwnSecret ==
    \A r \in tokens :
        /\ r.token_type = REFRESH =>
               /\ jwt_decode(r.token, TAPI_TOKEN_REFRESH_SECRET_KEY) # "JWTError"
               /\ jwt_decode(r.token, TAPI_TOKEN_ACCESS_SECRET_KEY) = "JWTError"
        /\ r.token_type = ACCESS =>
               /\ jwt_decode(r.token, TAPI_TOKEN_ACCESS_SECRET_KEY) # "JWTError"
               /\ jwt_decode(r.token, TAPI_TOKEN_REFRESH_SECRET_KEY) = "JWTError"

\* C19 (as claimed): the access token a login mints expires ACCESS_MINUTES
\* after the login, and the refresh token minted with it expires strictly
\* later.
C19_RefreshOutlivesAccess ==
    [][(last'.op \in LoginOps /\ issues' = issues + 1) =>
          /\ last'.access.exp = now' + ACCESS_MINUTES
          /\ last'.refresh.exp > last'.access.exp]_vars

\* a login attempt has just been made
LoginAttempted == attempts' # attempts \/ (last'.op = "login_user" /\ issues' = issues + 1)

\* the account is inside a ban: is_banned with ban_until still ahead
Locked(u) ==
    users[u].is_banned /\ users[u].ban_until # Null /\ now < users[u].ban_until

\* C12 (as claimed): the 10th wrong-password login in a row of an account
\* that was not banned leaves it with is_banned set and ban_until 10 minutes
\* after that failure, and a login that follows it within those 10 minutes
\* is refused with UserBannedException whatever its password.
C12_TenthFailureLocks ==
    [][LoginAttempted =>
          LET u == attempts'.user
          IN /\ (/\ ~attempts'.correct
                 /\ attempts'.wrong = FAILED_ATTEMPTS_LIMIT
                 /\ ~users[u].is_banned) =>
                    /\ users'[u].is_banned
                    /\ users'[u].ban_until = now' + LOCKOUT_MINUTES
             /\ (/\ WrongInARow(u) = FAILED_ATTEMPTS_LIMIT
                 /\ now < attempts.failed_at + LOCKOUT_MINUTES) =>
                    attempts'.verdict = "UserBannedException"]_vars

\* C14: a login of an account that is inside a ban is refused, with the
\* right password as with a wrong one, and issues nothing: no row is
\* written or banned, no token is handed out.
C14_LockedLoginIsRejected ==
    [][LoginAttempted =>
          LET u == attempts'.user
          IN Locked(u) =>
                /\ attempts'.verdict # "ok"
                /\ attempts'.correct => attempts'.verdict = "UserBannedException"
                /\ tokens' = tokens
                /\ issues' = issues
                /\ session' = session
                /\ last' = last]_vars

\* the latest login carried the right password for an account that is
\* inside a ban and holds a non-banned row, and was refused as banned
C14_Witness ==
    /\ attempts.user # 0
    /\ attempts.correct
    /\ attempts.verdict = "UserBannedException"
    /\ Locked(attempts.user)
    /\ \E r \in tokens : r.user_id = attempts.user /\ ~r.ban

\* C15 (as claimed): a login of an account with is_banned set, made when
\* ban_until has passed, clears is_banned, failed_attempts and ban_until,
\* and with the right password it is not refused as banned.
C15_ElapsedBanIsLifted ==
    [][LoginAttempted =>
          LET u == attempts'.user
          IN (/\ users[u].is_banned
              /\ users[u].ban_until # Null
              /\ now >= users[u].ban_until) =>
                /\ ~users'[u].is_banned
                /\ users'[u].failed_attempts = 0
                /\ users'[u].ban_until = Null
                /\ attempts'.correct => attempts'.verdict # "UserBannedException"]_vars

\* C20 (as claimed): a login that reaches the issuing of the pair and whose
\* new rows cannot be written is answered TokenGenerationException.
C20_FailedWriteIsGenerationError ==
    \A email \in Emails : \A scopes \in ScopeRequests :
        LET user == UserByEmail(email)
        IN (/\ user # 0
            /\ ~users[user].is_banned
            /\ login_scopes(user, scopes).ok
            /\ ~creating_recording_all_token_to_user(
                    tokens, user, login_scopes(user, scopes).scopes).flushed) =>
               login_verdict(email, "secret1a", scopes) = "TokenGenerationException"

LockoutOps == {"handle_failed_login", "check_user_ban", "remove_bans",
               "ban_on_user", "ban_off_user"}

\* C13: handle_failed_login on an account that is not banned adds exactly
\* one to failed_attempts and touches no other account; while the new count
\* is 9 or less the account stays unlocked, and when it is exactly 10 the
\* account is locked: is_banned set, ban_until = now + 10 minutes.
C13_FailureCountAndLock ==
    [][(last'.op = "handle_failed_login" /\ users' # users) =>
          LET u == last'.user
          IN /\ ~users[u].is_banned
             /\ users'[u].failed_attempts = users[u].failed_attempts + 1
             /\ \A v \in UserIds \ {u} : users'[v] = users[v]
             /\ users'[u].failed_attempts <= FAILED_ATTEMPTS_LIMIT - 1 =>
                    /\ ~users'[u].is_banned
                    /\ users'[u].ban_until = users[u].ban_until
             /\ users'[u].failed_attempts = FAILED_ATTEMPTS_LIMIT =>
                    /\ users'[u].is_banned
                    /\ users'[u].ban_until = now + LOCKOUT_MINUTES]_vars

\* the 10th failure has just locked one account while another stands at 9
\* failures, unlocked
C13_Witness ==
    /\ last.op = "handle_failed_login"
    /\ users[last.user].failed_attempts = FAILED_ATTEMPTS_LIMIT
    /\ users[last.user].is_banned
    /\ users[last.user].ban_until = now + LOCKOUT_MINUTES
    /\ \E v \in UserIds : /\ users[v].failed_attempts = FAILED_ATTEMPTS_LIMIT - 1
                          /\ ~users[v].is_banned
                          /\ users[v].ban_until = Null

\* every account of table U is banned exactly while its ban_until is ahead
\* of time t
BannedIffInsideWindow(U, t) ==
    \A u \in UserIds : U[u].exists =>
        /\ U[u].is_banned => (U[u].ban_until # Null /\ t < U[u].ban_until)
        /\ ~U[u].is_banned => U[u].ban_until = Null

\* C16 (as claimed): in the state a handled failure, a ban check, a sweep,
\* or an administrator's ban_on or ban_off leaves behind, every account with
\* is_banned set has a ban_until that is still ahead, and every account
\* without it has a null ban_until.
C16_BannedIffInsideWindow ==
    [][(now' = now /\ last'.op \in LockoutOps) =>
          BannedIffInsideWindow(users', now')]_vars

\* C17: every token that register, login or refresh hands out carries the
\* id of the account it was minted for as its subject and a scope set that
\* is a subset of the roles the account holds when it is minted.
C17_MintedScopesWithinRoles ==
    [][issues' = issues + 1 =>
          /\ last'.op \in IssuingOps
          /\ last'.access.sub = last'.user
          /\ last'.access.scopes \subseteq users'[last'.user].roles
          /\ last'.refresh # NoToken =>
                 /\ last'.refresh.sub = last'.user
                 /\ last'.refresh.scopes \subseteq users'[last'.user].roles]_vars

\* a refresh has been served on a token that carries a role the account
\* has lost, and the access token it minted is without that role
C17_Witness ==
    /\ last.op \in {"refresh", "AuthAPI_refresh"}
    /\ last.res = "ok"
    /\ last.access.sub = last.user
    /\ \E scope \in last.presented.scopes :
          /\ scope \notin users[last.user].roles
          /\ scope \notin last.access.scopes

\* C27 (as claimed): the gate answers with the reason of the first failing
\* check in the order signature, subject, required scope, expiry, account,
\* token row, account ban; a correctly signed token with a subject that
\* lacks every required scope is denied as forbidden even when it is expired.
C27_FirstFailingCheckInOrder ==
    \A t \in Presentable : \A sc \in RequiredScopes :
        LET verdict == get_current_user(t, sc)
            signed == t.key = TAPI_TOKEN_ACCESS_SECRET_KEY
            subject == t.sub # NoSub
            scoped == rig(sc, t.scopes)
            fresh == t.exp # Null /\ t.exp >= now
        IN /\ ~signed => verdict = "InvalidJWTException"
           /\ (signed /\ ~subject) => verdict = "UserIdNotFoundException"
           /\ (signed /\ subject /\ ~scoped) => verdict = "ForbiddenAccessException"
           /\ (signed /\ subject /\ scoped /\ t.exp # Null /\ t.exp < now) =>
                  verdict = "TokenExpiredException"
           /\ (signed /\ subject /\ scoped /\ fresh /\ ~UserExists(t.sub)) =>
                  verdict = "UserNotFoundException"
           /\ (signed /\ subject /\ scoped /\ fresh /\ UserExists(t.sub)
                  /\ ~check_access_token(t, t.sub)) =>
                  verdict = "TokenMismatchException"

\* the strings handed out or stored as refresh tokens
RefreshStrings ==
    ({r.token : r \in {q \in tokens : q.token_type = REFRESH}}
        \cup {session[u].refresh : u \in UserIds} \cup {last.refresh}) \ {NoToken}

\* C28: a string minted as a refresh token is never allowed by the gate as
\* a bearer token, whatever its signature, its expiry and the ban of its row.
C28_RefreshTokenIsNoBearer ==
    \A t \in RefreshStrings : \A sc \in RequiredScopes :
        get_current_user(t, sc) # "ALLOW"

\* a refresh token with a non-banned row, signed with the key the gate
\* verifies with, unexpired, of an existing account that is not banned, is
\* refused for want of an ACCESS row
C28_Witness ==
    \E r \in tokens :
        /\ r.token_type = REFRESH
        /\ ~r.ban
        /\ PassesEarlierChecks(r.token, {"USER"})
        /\ ~users[r.user_id].is_banned
        /\ get_current_user(r.token, {"USER"}) = "TokenMismatchException"

\* C25 (as claimed): a login with an e-mail of no account and a login with
\* the e-mail of an account and a wrong password are answered with the same
\* status, error code and message.
C25_LoginErrorsAreUniform ==
    \A unknown \in Emails : \A known \in Emails : \A scopes \in ScopeRequests :
        (UserByEmail(unknown) = 0 /\ UserByEmail(known) # 0) =>
            http_exception_handler(login_verdict(unknown, "wrong-pw", scopes))
                = http_exception_handler(login_verdict(known, "wrong-pw", scopes))

\* C30 (as claimed): whatever handle_failed_login, check_user_ban,
\* remove_bans, ban_on and ban_off have done, an account that is not banned
\* has fewer than 10 failed attempts on its count.
C30_UnbannedCountBelowLimit ==
    \A u \in UserIds :
        (users[u].exists /\ ~users[u].is_banned) =>
            users[u].failed_attempts < FAILED_ATTEMPTS_LIMIT


\* --------------------------------------------- verification token redemption

\* the clock step of a run with verification tokens: past the life of a token
VerifyTickSteps == {VERIFICATION_MINUTES + 1}
\* the address an account asks to change to, passwords a reset asks for
NewEmails == {"a@x.com"}
NewPasswords == {"secret1a", "changed2b"}

NoVerification == [table |-> None, email |-> None, new_email |-> None,
                   token |-> 0, ban |-> FALSE, expires_at |-> Null]

\* select(<table>).where(<table>.token == token), scalar_one_or_none
TokenData(rows, table, token) ==
    IF \E r \in rows : r.table = table /\ r.token = token
    THEN CHOOSE r \in rows : r.table = table /\ r.token = token
    ELSE NoVerification

\* the token strings a client can present: those mailed (a string of one
\* table is no row of another)
VerificationStrings == {r.token : r \in verifications}

\* mail_sender.logic.send_verify_email_to_user, called for the caller's own
\* address (POST /email/verify).  A mail that cannot be sent raises and
\* the row is rolled back.
send_verify_email_to_user(email) ==
    /\ UserByEmail(email) # 0
    /\ Cardinality(verifications) < MaxVerifications
    /\ verifications' = verifications
                          \cup {VerificationToken(EMAIL_VERIFICATION, email, None)}
    /\ UNCHANGED <<users, tokens, now, ticks, issues, session, last, tx, attempts>>

\* mail_sender.logic.send_verify_change_email_to_user, called for the
\* caller's address and a new address no account has (PUT /email)
send_verify_change_email_to_user(email, new_email) ==
    /\ UserByEmail(email) # 0
    /\ UserByEmail(new_email) = 0
    /\ Cardinality(verifications) < MaxVerifications
    /\ verifications' = verifications
                          \cup {VerificationToken(CHANGE_EMAIL_VERIFICATION, email, new_email)}
    /\ UNCHANGED <<users, tokens, now, ticks, issues, session, last, tx, attempts>>

\* mail_sender.logic.send_reset_password_to_user, called for whatever
\* address the request names (POST /password/reset)
send_reset_password_to_user(email) ==
    /\ Cardinality(verifications) < MaxVerifications
    /\ verifications' = verifications
                          \cup {VerificationToken(RESET_PASSWORD, email, None)}
    /\ UNCHANGED <<users, tokens, now, ticks, issues, session, last, tx, attempts>>

\* a redemption that is answered without changing a row
Denied(op, exception) ==
    /\ last' = Response(op, 0, exception, NoToken, NoToken, NoToken, {})
    /\ UNCHANGED <<users, verifications>>

\* GET /email/verify/{token} without token_data.ban = True
verify_email_keeps_token(token) ==
    LET token_data == TokenData(verifications, EMAIL_VERIFICATION, token)
        check_user == UserByEmail(token_data.email)
    IN /\ UNCHANGED <<tokens, now, ticks, issues, session, tx, attempts>>
       /\ IF token_data = NoVerification
          THEN Denied("verify_email", "TokenNotFoundException")
          ELSE IF now > token_data.expires_at \/ token_data.ban
          THEN Denied("verify_email", "TokenExpiredException")
          ELSE IF check_user = 0
          THEN Denied("verify_email", "UserNotFoundException")
          ELSE /\ UNCHANGED verifications
               /\ users' = [users EXCEPT ![check_user].is_email_confirmed = TRUE]
               /\ last' = Response("verify_email", check_user, "ok",
                                   NoToken, NoToken, NoToken, {})

\* GET /email/verify/{token} (background.verify_email, and the same code in
\* BackgroundAPI.verify_email): no row, a row past its time or used, no
\* account of the row's address; else the row is used and the address
\* confirmed
verify_email(token) ==
    LET token_data == TokenData(verifications, EMAIL_VERIFICATION, token)
        check_user == UserByEmail(token_data.email)
    IN /\ UNCHANGED <<tokens, now, ticks, issues, session, tx, attempts>>
       /\ IF token_data = NoVerification
          THEN Denied("verify_email", "TokenNotFoundException")
          ELSE IF now > token_data.expires_at \/ token_data.ban
          THEN Denied("verify_email", "TokenExpiredException")
          ELSE IF check_user = 0
          THEN Denied("verify_email", "UserNotFoundException")
          ELSE /\ verifications' = (verifications \ {token_data})
                                      \cup {[token_data EXCEPT !.ban = TRUE]}
               /\ users' = [users EXCEPT ![check_user].is_email_confirmed = TRUE]
               /\ last' = Response("verify_email", check_user, "ok",
                                   NoToken, NoToken, NoToken, {})

\* GET /email/change/verify/{token} (background.verify_email_for_change_email,
\* and the same code in BackgroundAPI): as verify_email, and the account
\* takes the new address; an address another account has by then fails the
\* flush (users.email is unique), UpdateException is raised and nothing is
\* kept
verify_email_for_change_email(token) ==
    LET token_data == TokenData(verifications, CHANGE_EMAIL_VERIFICATION, token)
        check_user == UserByEmail(token_data.email)
    IN /\ UNCHANGED <<tokens, now, ticks, issues, session, tx, attempts>>
       /\ IF token_data = NoVerification
          THEN Denied("verify_email_for_change_email", "TokenNotFoundException")
          ELSE IF now > token_data.expires_at \/ token_data.ban
          THEN Denied("verify_email_for_change_email", "TokenExpiredException")
          ELSE IF check_user = 0
          THEN Denied("verify_email_for_change_email", "UserNotFoundException")
          ELSE IF UserByEmail(token_data.new_email) \notin {0, check_user}
          THEN /\ last' = Failure("verify_email_for_change_email", "UpdateException")
               /\ UNCHANGED <<users, verifications>>
          ELSE /\ verifications' = (verifications \ {token_data})
                                      \cup {[token_data EXCEPT !.ban = TRUE]}
               /\ users' = [users EXCEPT
                               ![check_user].email = token_data.new_email,
                               ![check_user].is_email_confirmed = TRUE]
               /\ last' = Response("verify_email_for_change_email", check_user, "ok",
                                   NoToken, NoToken, NoToken, {})

\* POST /password/apply without the test of expires_at
applying_new_password_any_time(token, password) ==
    LET token_data == TokenData(verifications, RESET_PASSWORD, token)
        check_user == UserByEmail(token_data.email)
    IN /\ UNCHANGED <<tokens, now, ticks, issues, session, tx, attempts>>
       /\ IF token_data = NoVerification
          THEN Denied("applying_new_password", "TokenNotFoundException")
          ELSE IF token_data.ban
          THEN Denied("applying_new_password", "TokenExpiredException")
          ELSE IF check_user = 0
          THEN Denied("applying_new_password", "UserNotFoundException")
          ELSE /\ UNCHANGED verifications
               /\ users' = [users EXCEPT
                               ![check_user].password = get_password_hash(password)]
               /\ last' = Response("applying_new_password", check_user, "ok",
                                   NoToken, NoToken, NoToken, {})

\* POST /password/apply (background.applying_new_password, and the same code
\* in BackgroundAPI.applying_new_password): the same three tests, then the
\* account takes the password the form hashed; the token row is not written
applying_new_password(token, password) ==
    LET token_data == TokenData(verifications, RESET_PASSWORD, token)
        check_user == UserByEmail(token_data.email)
    IN /\ UNCHANGED <<tokens, now, ticks, issues, session, tx, attempts>>
       /\ IF token_data = NoVerification
          THEN Denied("applying_new_password", "TokenNotFoundException")
          ELSE IF now > token_data.expires_at \/ token_data.ban
          THEN Denied("applying_new_password", "TokenExpiredException")
          ELSE IF check_user = 0
          THEN Denied("applying_new_password", "UserNotFoundException")
          ELSE /\ UNCHANGED verifications
               /\ users' = [users EXCEPT
                               ![check_user].password = get_password_hash(password)]
               /\ last' = Response("applying_new_password", check_user, "ok",
                                   NoToken, NoToken, NoToken, {})

VerifyNext ==
    \/ \E email \in Emails : AuthAPI_register_user(email)
    \/ \E email \in Emails : send_verify_email_to_user(email)
    \/ \E email \in Emails, new_email \in NewEmails :
          send_verify_change_email_to_user(email, new_email)
    \/ \E email \in Emails : send_reset_password_to_user(email)
    \/ \E token \in VerificationStrings : verify_email(token)
    \/ \E token \in VerificationStrings : verify_email_for_change_email(token)
    \/ \E token \in VerificationStrings, password \in NewPasswords :
          applying_new_password(token, password)
    \/ \E d \in VerifyTickSteps : Tick(d)

VerifySpec == Init /\ [][VerifyNext]_vars


\* C22: a step of POST /password/apply that changes the password leaves the
\* row of the reset-password token it redeemed with ban = TRUE, so that the
\* same token is refused from then on.
C22_ResetTokenIsSingleUse ==
    [][\A token \in VerificationStrings, password \in NewPasswords :
          (applying_new_password(token, password) /\ last'.res = "ok")
             => TokenData(verifications', RESET_PASSWORD, token).ban]_vars

RedeemsOnce(table, token) ==
    LET token_data == TokenData(verifications, table, token)
    IN token_data # NoVerification =>
          /\ token_data.ban =>
                /\ last'.res = "TokenExpiredException"
                /\ users' = users
                /\ verifications' = verifications
          /\ last'.res = "ok" =>
                /\ ~token_data.ban
                /\ TokenData(verifications', table, token).ban
                /\ users'[last'.user].is_email_confirmed
                /\ table = CHANGE_EMAIL_VERIFICATION =>
                      users'[last'.user].email = token_data.new_email

select_token_data(p, op, table, token) ==
    LET token_data == TokenData(verifications, table, token)
        check_user == UserByEmail(token_data.email)
    IN /\ tx[p].pc = "idle"
       /\ UNCHANGED <<users, tokens, now, ticks, issues, session, attempts, verifications>>
       /\ IF token_data = NoVerification
          THEN /\ last' = Response(op, 0, "TokenNotFoundException",
                                   NoToken, NoToken, NoToken, {})
               /\ UNCHANGED tx
          ELSE IF now > token_data.expires_at \/ token_data.ban
          THEN /\ last' = Response(op, 0, "TokenExpiredException",
                                   NoToken, NoToken, NoToken, {})
               /\ UNCHANGED tx
          ELSE IF check_user = 0
          THEN /\ last' = Response(op, 0, "UserNotFoundException",
                                   NoToken, NoToken, NoToken, {})
               /\ UNCHANGED tx
          ELSE /\ tx' = [tx EXCEPT ![p] = [NoTx EXCEPT !.pc = op,
                                                       !.user = check_user,
                                                       !.seen = {token_data}]]
               /\ UNCHANGED last

\* the row a request in flight has read
SeenTokenData(p) == CHOOSE token_data \in tx[p].seen : TRUE

\* background.verify_email up to its writes
verify_email_select(p, token) ==
    select_token_data(p, "verify_email", EMAIL_VERIFICATION, token)

\* background.verify_email from token_data.ban = True to the commit
verify_email_flush(p) ==
    /\ tx[p].pc = "verify_email"
    /\ verifications' = {IF r.token = SeenTokenData(p).token
                         THEN [r EXCEPT !.ban = TRUE] ELSE r : r \in verifications}
    /\ users' = [users EXCEPT ![tx[p].user].is_email_confirmed = TRUE]
    /\ last' = Response("verify_email", tx[p].user, "ok",
                        NoToken, NoToken, NoToken, {})
    /\ tx' = [tx EXCEPT ![p] = NoTx]
    /\ UNCHANGED <<tokens, now, ticks, issues, session, attempts>>

\* background.verify_email_for_change_email up to its writes
verify_email_for_change_email_select(p, token) ==
    select_token_data(p, "verify_email_for_change_email",
                      CHANGE_EMAIL_VERIFICATION, token)

\* background.verify_email_for_change_email from token_data.ban = True to the
\* commit; a flush that fails on the unique address rolls everything back
verify_email_for_change_email_flush(p) ==
    /\ tx[p].pc = "verify_email_for_change_email"
    /\ tx' = [tx EXCEPT ![p] = NoTx]
    /\ UNCHANGED <<tokens, now, ticks, issues, session, attempts>>
    /\ IF UserByEmail(SeenTokenData(p).new_email) \notin {0, tx[p].user}
       THEN /\ last' = Failure("verify_email_for_change_email", "UpdateException")
            /\ UNCHANGED <<users, verifications>>
       ELSE /\ verifications' = {IF r.token = SeenTokenData(p).token
                                 THEN [r EXCEPT !.ban = TRUE] ELSE r : r \in verifications}
            /\ users' = [users EXCEPT
                            ![tx[p].user].email = SeenTokenData(p).new_email,
                            ![tx[p].user].is_email_confirmed = TRUE]
            /\ last' = Response("verify_email_for_change_email", tx[p].user, "ok",
                                NoToken, NoToken, NoToken, {})

ConcVerifyNext ==
    \/ \E email \in Emails : AuthAPI_register_user(email)
    \/ \E email \in Emails, new_email \in NewEmails :
          send_verify_change_email_to_user(email, new_email)
    \/ \E p \in Procs, token \in VerificationStrings : verify_email_select(p, token)
    \/ \E p \in Procs : verify_email_flush(p)
    \/ \E p \in Procs, token \in VerificationStrings :
          verify_email_for_change_email_select(p, token)
    \/ \E p \in Procs : verify_email_for_change_email_flush(p)

ConcVerifySpec == Init /\ [][ConcVerifyNext]_vars

\* C23: of the redemptions of one verification token that are in flight
\* together, at most one has passed the test of ban: a redemption writes its
\* effect only onto a row that is unused at that time.
C23_OneRedemptionPassesTheCheck ==
    [][\A p \in Procs :
          (verify_email_flush(p) \/ verify_email_for_change_email_flush(p))
             => (last'.res = "ok" =>
                    ~TokenData(verifications, SeenTokenData(p).table,
                               SeenTokenData(p).token).ban)]_vars


\* ----------------------------- handle_failed_login calls in flight together

\* handle_failed_login is handed the User object its caller's session has
\* loaded; each call has a session of its own

\* the caller loads the account's row
handle_failed_login_load(p, user) ==
    /\ tx[p].pc = "idle"
    /\ UserExists(user)
    /\ users[user].failed_attempts < MaxFailed
    /\ tx' = [tx EXCEPT ![p] = [NoTx EXCEPT !.pc = "handle_failed_login",
                                            !.user = user,
                                            !.seen = {users[user]}]]
    /\ UNCHANGED <<users, tokens, now, ticks, issues, session, last, attempts,
                   verifications>>

\* the row a call in flight has loaded
LoadedUser(p) == CHOOSE row \in tx[p].seen : TRUE

\* authentication_service.handle_failed_login on the loaded object: nothing
\* for a banned one; else failed_attempts becomes the loaded value plus one,
\* at the limit with is_banned and ban_until; the commit writes the
\* attributes that were set
handle_failed_login_commit(p) ==
    /\ tx[p].pc = "handle_failed_login"
    /\ tx' = [tx EXCEPT ![p] = NoTx]
    /\ UNCHANGED <<tokens, now, ticks, issues, session, attempts, verifications>>
    /\ LET user == tx[p].user
       IN IF LoadedUser(p).is_banned
          THEN /\ UNCHANGED users
               /\ last' = Response("handle_failed_login", user, None,
                                   NoToken, NoToken, NoToken, {})
          ELSE LET failed_attempts == LoadedUser(p).failed_attempts + 1
               IN IF failed_attempts >= FAILED_ATTEMPTS_LIMIT
                  THEN /\ users' = [users EXCEPT
                                       ![user].failed_attempts = failed_attempts,
                                       ![user].is_banned = TRUE,
                                       ![user].ban_until = now + LOCKOUT_MINUTES]
                       /\ last' = Response("handle_failed_login", user, "403",
                                           NoToken, NoToken, NoToken, {})
                  ELSE /\ users' = [users EXCEPT
                                       ![user].failed_attempts = failed_attempts]
                       /\ last' = Response("handle_failed_login", user, None,
                                           NoToken, NoToken, NoToken, {})

\* one account is enough: the calls for one account do not touch another
ConcLockoutNext ==
    \/ AuthAPI_register_user("a@x.com")
    \/ \E p \in Procs, user \in UserIds : handle_failed_login_load(p, user)
    \/ \E p \in Procs : handle_failed_login_commit(p)

ConcLockoutSpec == Init /\ [][ConcLockoutNext]_vars

\* C29: every handle_failed_login call that completes for an account that is
\* not banned, below the limit, adds one to the account's failed_attempts,
\* whatever other calls for the account are in flight; so k calls add k.
C29_NoIncrementIsLost ==
    [][\A p \in Procs :
          (/\ handle_failed_login_commit(p)
           /\ ~users[tx[p].user].is_banned
           /\ users[tx[p].user].failed_attempts + 1 < FAILED_ATTEMPTS_LIMIT)
             => users'[tx[p].user].failed_attempts
                   = users[tx[p].user].failed_attempts + 1]_vars


\* ------------------------------------------------ the contacts of an account

PhoneNumbers == {"+79990000001"}
\* the scopes DELETE /email and DELETE /phone declare
ContactDeleteScopes == {"DEVELOPER", "ADMIN", "SYSADMIN"}

\* column users.email takes NULL: an account's e-mail address is optional
users_email_nullable == TRUE

\* POST /phone: the gate; a number an account has already, or a caller that
\* has a number, is refused; else the caller takes the number
post_phone_number(token, phone_number) ==
    /\ get_current_user(token, {"USER"}) = "ALLOW"
    /\ UNCHANGED <<tokens, now, ticks, issues, session, tx, attempts, verifications>>
    /\ IF \E u \in UserIds : users[u].exists /\ users[u].phone_number = phone_number
       THEN /\ last' = Failure("post_phone_number", "PhoneAlreadyExistsException")
            /\ UNCHANGED users
       ELSE IF users[token.sub].phone_number # None
       THEN /\ last' = Failure("post_phone_number", "DuplicateEntryException")
            /\ UNCHANGED users
       ELSE /\ users' = [users EXCEPT ![token.sub].phone_number = phone_number]
            /\ last' = Response("post_phone_number", token.sub, "ok",
                                NoToken, NoToken, token, {})

\* the gate of a contact deletion: it answers with the caller's row as this
\* request's session has loaded it
load_user_data(p, op, token) ==
    /\ tx[p].pc = "idle"
    /\ get_current_user(token, ContactDeleteScopes) = "ALLOW"
    /\ tx' = [tx EXCEPT ![p] = [NoTx EXCEPT !.pc = op,
                                            !.user = token.sub,
                                            !.seen = {users[token.sub]}]]
    /\ UNCHANGED <<users, tokens, now, ticks, issues, session, last, attempts,
                   verifications>>

\* the row a contact deletion in flight works on
UserData(p) == CHOOSE user_data \in tx[p].seen : TRUE

\* DELETE /email, the gate
delete_email_load(p, token) == load_user_data(p, "delete_email", token)

\* DELETE /email, the handler: an account without phone number keeps its
\* address (LastContactDeleteException); else the address is set to NULL,
\* flushed, and committed on return
delete_email_flush(p) ==
    /\ tx[p].pc = "delete_email"
    /\ tx' = [tx EXCEPT ![p] = NoTx]
    /\ UNCHANGED <<tokens, now, ticks, issues, session, attempts, verifications>>
    /\ IF UserData(p).phone_number = None
       THEN /\ last' = Failure("delete_email", "LastContactDeleteException")
            /\ UNCHANGED users
       ELSE IF ~users_email_nullable
       THEN /\ last' = Failure("delete_email", "IntegrityError")
            /\ UNCHANGED users
       ELSE /\ users' = [users EXCEPT ![tx[p].user].email = None]
            /\ last' = Response("delete_email", tx[p].user, "ok",
                                NoToken, NoToken, NoToken, {})

\* DELETE /phone (the handler is a second put_phone_number in me.py), the gate
put_phone_number_load(p, token) == load_user_data(p, "put_phone_number", token)

\* DELETE /phone, the handler: an account without address keeps its number
\* (LastContactDeleteException); else the number is set to NULL, flushed,
\* and committed on return
put_phone_number_flush(p) ==
    /\ tx[p].pc = "put_phone_number"
    /\ tx' = [tx EXCEPT ![p] = NoTx]
    /\ UNCHANGED <<tokens, now, ticks, issues, session, attempts, verifications>>
    /\ IF UserData(p).email = None
       THEN /\ last' = Failure("put_phone_number", "LastContactDeleteException")
            /\ UNCHANGED users
       ELSE /\ users' = [users EXCEPT ![tx[p].user].phone_number = None]
            /\ last' = Response("put_phone_number", tx[p].user, "ok",
                                NoToken, NoToken, NoToken, {})

ContactNext ==
    \/ \E email \in Emails : AuthAPI_register_user(email)
    \/ \E t \in BaseTokens, phone_number \in PhoneNumbers :
          post_phone_number(t, phone_number)
    \/ \E p \in Procs, t \in BaseTokens : delete_email_load(p, t)
    \/ \E p \in Procs : delete_email_flush(p)
    \/ \E p \in Procs, t \in BaseTokens : put_phone_number_load(p, t)
    \/ \E p \in Procs : put_phone_number_flush(p)

ContactSpec == Init /\ [][ContactNext]_vars

\* C26: every account has an e-mail address or a phone number, whatever
\* DELETE /email and DELETE /phone requests it has sent, one after the other
\* or together.
C26_OneContactIsKept ==
    \A u \in UserIds :
       users[u].exists => (users[u].email # None \/ users[u].phone_number # None)

====
